---------------------------- MODULE Spec2Model ----------------------------
(***************************************************************************)
(* Model of src/main.py: the persona-driven ranking and extractive         *)
(* summarization pipeline.                                                 *)
(*                                                                         *)
(* A text is a sequence of characters (one-character strings, or word      *)
(* tokens standing for a run of letters).  The embedding provider is a     *)
(* black box: an embedding is represented by its cosine similarity to the  *)
(* query embedding, an integer in Scores (units of 1/2, so -2..2 stands    *)
(* for [-1, 1]).  Every call of the provider may raise.  The provider is   *)
(* deterministic: in one run equal chunk texts get equal embeddings.       *)
(*                                                                         *)
(* Left out: argument parsing, load_inputs and the query string (they feed *)
(* only the provider and the metadata), the "Metadata" object of the       *)
(* output, and failures of the file system (fitz.open, makedirs, open).    *)
(***************************************************************************)
EXTENDS Integers, Sequences, FiniteSets

VARIABLES
    listing,          \* os.listdir(docs_dir) with each file's pages (fitz)
    pc,               \* position of main()
    chunks,           \* main: chunks
    query_embedding,  \* main: query_embedding (TRUE once computed)
    chunk_embeddings, \* main: chunk_embeddings, as similarities to the query
    sections,         \* main: sections (dict, in insertion order)
    sorted_sections,  \* main: sorted_sections
    output,           \* main: output
    rank,             \* main: loop variable i of the output loop
    calls,            \* log of the model.encode calls made so far
    written,          \* what has been dumped to args.output_file, in order
    refine            \* one evaluation of generate_refined_text

vars == <<listing, pc, chunks, query_embedding, chunk_embeddings, sections,
          sorted_sections, output, rank, calls, written, refine>>

-----------------------------------------------------------------------------
(* Configuration, src/main.py lines 12-14 *)

CHUNK_SIZE == 500
TOP_SECTIONS == 5
TOP_SENTENCES_FOR_REFINED_TEXT == 3

-----------------------------------------------------------------------------
(* Bounds of the model *)

\* pages of the document a.pdf in the pipeline's inputs
MaxPages == 6
\* length of a page text in the chunking inputs
MaxTextLen == 1001
\* characters of a free-form section text in the summarizer inputs
MaxFreeLen == 5
\* sentences of a regular section text in the summarizer inputs
MaxSentences == 4

\* cosine similarities, in units of 1/2
Scores == {-2, -1, 0, 1, 2}
\* the similarities the provider gives chunks in the pipeline's runs
CoarseScores == {-2, 0, 2}

-----------------------------------------------------------------------------
(* Integers and sequences *)

MinOf(S) == CHOOSE x \in S : \A y \in S : x <= y
MaxOf(S) == CHOOSE x \in S : \A y \in S : y <= x
Min2(a, b) == IF a <= b THEN a ELSE b
\* Python's max(a, b)
Max2(a, b) == IF a >= b THEN a ELSE b

\* seq[:n]
Take(seq, n) == SubSeq(seq, 1, Min2(n, Len(seq)))
\* seq[-n:]
LastN(seq, n) == SubSeq(seq, Max2(1, Len(seq) - n + 1), Len(seq))

RECURSIVE Flatten(_)
Flatten(ss) == IF ss = <<>> THEN <<>> ELSE Head(ss) \o Flatten(Tail(ss))

Repeat(c, n) == [k \in 1..n |-> c]

-----------------------------------------------------------------------------
(* Python string operations *)

Whitespace == {" ", "\n"}

\* str.strip()
Strip(s) ==
    LET keep == {k \in 1..Len(s) : s[k] \notin Whitespace}
        first == CHOOSE k \in keep : \A j \in 1..(k - 1) : s[j] \in Whitespace
        last == CHOOSE k \in keep : \A j \in (k + 1)..Len(s) : s[j] \in Whitespace
    IN  IF keep = {} THEN <<>> ELSE SubSeq(s, first, last)

\* str.split(sep): the pieces between the occurrences of sep, empty ones kept
Split(s, sep) ==
    LET at == {k \in 1..Len(s) : s[k] = sep}
        n  == Cardinality(at)
        Kth(j) == CHOOSE d \in at : Cardinality({e \in at : e <= d}) = j
        From(j) == IF j = 1 THEN 1 ELSE Kth(j - 1) + 1
        To(j) == IF j = n + 1 THEN Len(s) ELSE Kth(j) - 1
    IN  [j \in 1..(n + 1) |-> SubSeq(s, From(j), To(j))]

\* sep.join(parts)
RECURSIVE Join(_, _)
Join(parts, sep) ==
    IF parts = <<>> THEN <<>>
    ELSE IF Len(parts) = 1 THEN Head(parts)
    ELSE Head(parts) \o sep \o Join(Tail(parts), sep)

\* str.lower(), on the characters of the file names of the model
Lower(c) ==
    CASE c = "B" -> "b"
      [] c = "P" -> "p"
      [] c = "D" -> "d"
      [] c = "F" -> "f"
      [] OTHER -> c

LowerStr(s) == [k \in 1..Len(s) |-> Lower(s[k])]

\* str.endswith(suffix)
EndsWith(s, suffix) ==
    /\ Len(s) >= Len(suffix)
    /\ SubSeq(s, Len(s) - Len(suffix) + 1, Len(s)) = suffix

DotPdf == <<".", "p", "d", "f">>

\* filename.lower().endswith('.pdf')
IsPdf(filename) == EndsWith(LowerStr(filename), DotPdf)

-----------------------------------------------------------------------------
(* parse_and_chunk_documents *)

\* `if not text.strip(): continue`
PageSkipped(text) == Strip(text) = <<>>

\* a slice that stops one character early
ChunkTextMut(text, i) == SubSeq(text, i + 1, Min2(i + CHUNK_SIZE - 1, Len(text)))
\* text[i:i + CHUNK_SIZE]
ChunkText(text, i) == SubSeq(text, i + 1, Min2(i + CHUNK_SIZE, Len(text)))

\* the chunks of one page: for i in range(0, len(text), CHUNK_SIZE)
ChunkPage(text, filename, page_num) ==
    IF PageSkipped(text) THEN <<>>
    ELSE [k \in 1..((Len(text) + CHUNK_SIZE - 1) \div CHUNK_SIZE) |->
            [text     |-> ChunkText(text, (k - 1) * CHUNK_SIZE),
             doc_name |-> filename,
             page_num |-> page_num]]

\* for page_num, page in enumerate(doc, 1), from page p on
RECURSIVE ChunkPagesFrom(_, _)
ChunkPagesFrom(file, p) ==
    IF p > Len(file.pages) THEN <<>>
    ELSE ChunkPage(file.pages[p], file.name, p) \o ChunkPagesFrom(file, p + 1)

RECURSIVE parse_and_chunk_documents(_)
parse_and_chunk_documents(files) ==
    IF files = <<>> THEN <<>>
    ELSE (IF IsPdf(Head(files).name) THEN ChunkPagesFrom(Head(files), 1) ELSE <<>>)
         \o parse_and_chunk_documents(Tail(files))

-----------------------------------------------------------------------------
(* generate_refined_text *)

NonEmpty(s) == s # <<>>

\* [s.strip() for s in full_text.split('.') if s.strip()]
SplitSentences(full_text) ==
    LET pieces == Split(full_text, ".")
    IN  SelectSeq([j \in 1..Len(pieces) |-> Strip(pieces[j])], NonEmpty)

\* no early return: the provider is called on an empty list
NoSentencesMut(sentences) == FALSE
\* `if not sentences: return ""`
NoSentences(sentences) == sentences = <<>>

\* np.argsort(similarities): the index orders that sort the similarities
\* ascending; the default sort is not stable, so equal similarities may come
\* in any order.
IsArgSort(order, similarities) ==
    /\ {order[k] : k \in DOMAIN order} = DOMAIN similarities
    /\ \A k \in 1..(Len(order) - 1) :
          similarities[order[k]] <= similarities[order[k + 1]]

Permutations(n) == {p \in [1..n -> 1..n] : \A i, j \in 1..n : p[i] = p[j] => i = j}

\* what the provider (one similarity per sentence) and argsort may return for
\* n sentences
SimilaritiesAndOrders(n) ==
    {so \in [1..n -> Scores] \X Permutations(n) : IsArgSort(so[2], so[1])}

\* ndarray.sort() of distinct indices: ascending
RECURSIVE SortedAsc(_)
SortedAsc(S) ==
    IF S = {} THEN <<>> ELSE <<MinOf(S)>> \o SortedAsc(S \ {MinOf(S)})

\* the selection left in argsort's order (no top_indices.sort())
TopIndicesMut(order) ==
    LastN(order, TOP_SENTENCES_FOR_REFINED_TEXT)
\* np.argsort(similarities)[-TOP_SENTENCES_FOR_REFINED_TEXT:], then .sort()
TopIndices(order) ==
    LET top == LastN(order, TOP_SENTENCES_FOR_REFINED_TEXT)
    IN  SortedAsc({top[k] : k \in DOMAIN top})

\* the similarities and the top_indices generate_refined_text may compute for
\* n sentences
SimilaritiesAndTopIndices(n) ==
    {<<so[1], TopIndices(so[2])>> : so \in SimilaritiesAndOrders(n)}

\* the same, computed once for the texts in which every sentence is selected
TopIndicesTable ==
    [n \in 0..TOP_SENTENCES_FOR_REFINED_TEXT |-> SimilaritiesAndTopIndices(n)]

TopIndicesOf(n) ==
    IF n <= TOP_SENTENCES_FOR_REFINED_TEXT
    THEN TopIndicesTable[n]
    ELSE SimilaritiesAndTopIndices(n)

\* the refined text as it would read with every sentence given back its
\* terminator
RefinedTextMut(sentences, top_indices) ==
    Join([k \in DOMAIN top_indices |-> sentences[top_indices[k]] \o <<".">>], <<" ">>)

\* " ".join([sentences[i] for i in top_indices]), then + "." unless empty
RefinedText(sentences, top_indices) ==
    LET refined_text ==
            Join([k \in DOMAIN top_indices |-> sentences[top_indices[k]]], <<" ">>)
    IN  IF refined_text # <<>> THEN refined_text \o <<".">> ELSE <<>>

-----------------------------------------------------------------------------
(* main: scoring, grouping and sorting (lines 110-125) *)

Key(chunk) == <<chunk.doc_name, chunk.page_num>>

\* sections[key] = {'text': '', 'max_score': 0}
NewSection(key) == [key |-> key, text |-> <<>>, max_score |-> 0]

\* one iteration of `for chunk in chunks` over the insertion-ordered dict
GroupStep(secs, chunk) ==
    LET present == \E k \in DOMAIN secs : secs[k].key = Key(chunk)
        secs1 == IF present THEN secs ELSE Append(secs, NewSection(Key(chunk)))
    IN  [k \in DOMAIN secs1 |->
            IF secs1[k].key = Key(chunk)
            THEN [key       |-> secs1[k].key,
                  text      |-> secs1[k].text \o chunk.text \o <<" ">>,
                  max_score |-> Max2(secs1[k].max_score, chunk.score)]
            ELSE secs1[k]]

RECURSIVE GroupChunks(_, _)
GroupChunks(secs, cs) ==
    IF cs = <<>> THEN secs ELSE GroupChunks(GroupStep(secs, Head(cs)), Tail(cs))

\* an insertion that puts x in front of the elements of equal max_score (a
\* sort that reverses ties)
RECURSIVE InsertDescMut(_, _)
InsertDescMut(sorted, x) ==
    IF sorted = <<>> THEN <<x>>
    ELSE IF Head(sorted).max_score > x.max_score
         THEN <<Head(sorted)>> \o InsertDescMut(Tail(sorted), x)
         ELSE <<x>> \o sorted
\* sorted(..., key=max_score, reverse=True): a stable sort, so sections of
\* equal max_score keep the dict's order.  InsertDesc puts x behind every
\* element that does not rank below it.
RECURSIVE InsertDesc(_, _)
InsertDesc(sorted, x) ==
    IF sorted = <<>> THEN <<x>>
    ELSE IF Head(sorted).max_score >= x.max_score
         THEN <<Head(sorted)>> \o InsertDesc(Tail(sorted), x)
         ELSE <<x>> \o sorted

RECURSIVE SortFrom(_, _)
SortFrom(sorted, rest) ==
    IF rest = <<>> THEN sorted ELSE SortFrom(InsertDesc(sorted, Head(rest)), Tail(rest))

SortSections(secs) == SortFrom(<<>>, secs)

\* the list without the slice
TopSectionsMut(sorted) == sorted
\* sorted_sections[:TOP_SECTIONS]
TopSections(sorted) == Take(sorted, TOP_SECTIONS)

-----------------------------------------------------------------------------
(* Inputs *)

NameA == <<"a", ".", "p", "d", "f">>
NameB == <<"B", ".", "P", "D", "F">>
NameN == <<"n", ".", "t", "x", "t">>

BlankPage == <<" ">>
NoSentencePage == <<".">>
NormalPage == <<"a", ".", " ", "b">>
\* a page of two chunks
LongPage == Repeat("a", CHUNK_SIZE) \o <<".", "b">>

PageTexts == {BlankPage, NoSentencePage, NormalPage}

PageSeqs(n) == UNION {[1..k -> PageTexts] : k \in 0..n}

\* the pages of a.pdf when it is listed beside another file
MixPageSeqs == {<<>>, <<BlankPage>>, <<NoSentencePage>>, <<NormalPage>>,
                <<NormalPage, NoSentencePage>>}

FileA(pages) == [name |-> NameA, pages |-> pages]
FileB == [name |-> NameB, pages |-> <<LongPage>>]
FileN == [name |-> NameN, pages |-> <<>>]

\* the document directories of the pipeline's runs: a.pdf alone with up to
\* MaxPages pages, or beside a file that is no PDF or beside B.PDF; or no PDF
Listings ==
    {<<>>, <<FileN>>}
    \cup {<<FileA(p)>> : p \in PageSeqs(MaxPages)}
    \cup {<<FileN, FileA(p)>> : p \in MixPageSeqs}
    \cup {<<FileB, FileA(p)>> : p \in MixPageSeqs}
    \cup {<<FileA(p), FileB>> : p \in MixPageSeqs}

NoRefine == [state |-> "idle", full_text |-> <<>>, sentences |-> <<>>,
             similarities |-> <<>>, top_indices |-> <<>>, refined_text |-> <<>>]

NoOutput == [ExtractedSection |-> <<>>, SubSection |-> <<>>]

Init ==
    /\ listing \in Listings
    /\ pc = "load_model"
    /\ chunks = <<>>
    /\ query_embedding = FALSE
    /\ chunk_embeddings = <<>>
    /\ sections = <<>>
    /\ sorted_sections = <<>>
    /\ output = NoOutput
    /\ rank = 0
    /\ calls = <<>>
    /\ written = <<>>
    /\ refine = NoRefine

-----------------------------------------------------------------------------
(* main *)

Call(kind, n, r, ok) == [kind |-> kind, n |-> n, rank |-> r, ok |-> ok]

\* an exception that is swallowed, main() going on to save what it has
RaiseMut == pc' = "save"
\* an exception of the provider is caught nowhere: it ends main()
Raise == pc' = "failed"

\* no early return on an empty chunk list
NoChunksMut(cs) == FALSE
\* `if not chunks: ... return`
NoChunks(cs) == cs = <<>>

\* model = SentenceTransformer(MODEL_NAME)
LoadModel ==
    /\ pc = "load_model"
    /\ \/ /\ calls' = Append(calls, Call("load", 0, 0, TRUE))
          /\ pc' = "parse"
       \/ /\ calls' = Append(calls, Call("load", 0, 0, FALSE))
          /\ Raise
    /\ UNCHANGED <<listing, chunks, query_embedding, chunk_embeddings, sections,
                   sorted_sections, output, rank, written, refine>>

\* chunks = parse_and_chunk_documents(args.docs_dir); if not chunks: return
ParseAndChunk ==
    /\ pc = "parse"
    /\ chunks' = parse_and_chunk_documents(listing)
    /\ pc' = IF NoChunks(chunks') THEN "no_text" ELSE "encode_query"
    /\ UNCHANGED <<listing, query_embedding, chunk_embeddings, sections,
                   sorted_sections, output, rank, calls, written, refine>>

\* query_embedding = model.encode([intelligent_query])
EncodeQuery ==
    /\ pc = "encode_query"
    /\ \/ /\ calls' = Append(calls, Call("query", 1, 0, TRUE))
          /\ query_embedding' = TRUE
          /\ pc' = "encode_chunks"
       \/ /\ calls' = Append(calls, Call("query", 1, 0, FALSE))
          /\ query_embedding' = query_embedding
          /\ Raise
    /\ UNCHANGED <<listing, chunks, chunk_embeddings, sections, sorted_sections,
                   output, rank, written, refine>>

\* chunk_embeddings = model.encode(chunk_texts, batch_size=32, ...): one call
\* for all the chunk texts; the provider gives equal texts equal embeddings
EncodeChunks ==
    /\ pc = "encode_chunks"
    /\ \/ /\ \E f \in [{chunks[k].text : k \in DOMAIN chunks} -> CoarseScores] :
                chunk_embeddings' = [k \in DOMAIN chunks |-> f[chunks[k].text]]
          /\ calls' = Append(calls, Call("chunks", Len(chunks), 0, TRUE))
          /\ pc' = "rank"
       \/ /\ calls' = Append(calls, Call("chunks", Len(chunks), 0, FALSE))
          /\ chunk_embeddings' = chunk_embeddings
          /\ Raise
    /\ UNCHANGED <<listing, chunks, query_embedding, sections, sorted_sections,
                   output, rank, written, refine>>

\* lines 110-137: chunk['score'] = similarities[i]; the grouping loop; the
\* sort; the empty output
Rank ==
    /\ pc = "rank"
    /\ chunks' = [k \in DOMAIN chunks |->
                    [text     |-> chunks[k].text,
                     doc_name |-> chunks[k].doc_name,
                     page_num |-> chunks[k].page_num,
                     score    |-> chunk_embeddings[k]]]
    /\ sections' = GroupChunks(<<>>, chunks')
    /\ sorted_sections' = SortSections(sections')
    /\ output' = NoOutput
    /\ rank' = 1
    /\ pc' = IF TopSections(sorted_sections') = <<>> THEN "save" ELSE "emit"
    /\ UNCHANGED <<listing, query_embedding, chunk_embeddings, calls, written,
                   refine>>

ExtractedEntry(key, r) ==
    [document        |-> key[1],
     page_number     |-> key[2],
     section_title   |-> <<"Content from page ", key[2]>>,
     importance_rank |-> r]

SubSectionEntry(key, refined_text) ==
    [document |-> key[1], page_number |-> key[2], refined_text |-> refined_text]

\* one iteration of `for i, (key, data) in enumerate(sorted_sections[:TOP_SECTIONS], 1)`,
\* with its call of generate_refined_text
EmitSection ==
    LET top == TopSections(sorted_sections)
        sec == top[rank]
        sentences == SplitSentences(sec.text)
        extracted == Append(output.ExtractedSection, ExtractedEntry(sec.key, rank))
        Emitted(refined_text) ==
            /\ output' = [ExtractedSection |-> extracted,
                          SubSection |-> Append(output.SubSection,
                                                SubSectionEntry(sec.key, refined_text))]
            /\ rank' = rank + 1
            /\ pc' = IF rank = Len(top) THEN "save" ELSE "emit"
    IN  /\ pc = "emit"
        /\ \/ /\ NoSentences(sentences)
              /\ Emitted(<<>>)
              /\ calls' = calls
           \/ /\ ~NoSentences(sentences)
              /\ \E top_indices \in {st[2] : st \in TopIndicesOf(Len(sentences))} :
                    Emitted(RefinedText(sentences, top_indices))
              /\ calls' = Append(calls, Call("sentences", Len(sentences), rank, TRUE))
           \/ /\ ~NoSentences(sentences)
              /\ output' = [output EXCEPT !.ExtractedSection = extracted]
              /\ rank' = rank
              /\ calls' = Append(calls, Call("sentences", Len(sentences), rank, FALSE))
              /\ Raise
        /\ UNCHANGED <<listing, chunks, query_embedding, chunk_embeddings, sections,
                       sorted_sections, written, refine>>

\* with open(args.output_file, 'w') as f: json.dump(output, f, indent=4)
SaveOutput ==
    /\ pc = "save"
    /\ written' = Append(written, output)
    /\ pc' = "done"
    /\ UNCHANGED <<listing, chunks, query_embedding, chunk_embeddings, sections,
                   sorted_sections, output, rank, calls, refine>>

Next ==
    \/ LoadModel
    \/ ParseAndChunk
    \/ EncodeQuery
    \/ EncodeChunks
    \/ Rank
    \/ EmitSection
    \/ SaveOutput

Spec == Init /\ [][Next]_vars

-----------------------------------------------------------------------------
(* parse_and_chunk_documents on its own: page texts of every length up to   *)
(* MaxTextLen, blank or not, alone in a document or followed by a second    *)
(* page.                                                                    *)

PatternChars == <<"a", " ", "b", ".">>

\* the text of length n that repeats " b.a"
PatternText(n) == [k \in 1..n |-> PatternChars[(k % 4) + 1]]

ChunkTexts ==
    {Repeat(" ", n) : n \in 0..MaxTextLen} \cup {PatternText(n) : n \in 0..MaxTextLen}

ChunkListings ==
    {<<FileA(<<t>>)>> : t \in ChunkTexts}
    \cup {<<FileA(<<t, NormalPage>>)>> : t \in ChunkTexts}

InitChunk ==
    /\ listing \in ChunkListings
    /\ pc = "load_model"
    /\ chunks = <<>>
    /\ query_embedding = FALSE
    /\ chunk_embeddings = <<>>
    /\ sections = <<>>
    /\ sorted_sections = <<>>
    /\ output = NoOutput
    /\ rank = 0
    /\ calls = <<>>
    /\ written = <<>>
    /\ refine = NoRefine

NextChunk == LoadModel \/ ParseAndChunk

SpecChunk == InitChunk /\ [][NextChunk]_vars

-----------------------------------------------------------------------------
(* generate_refined_text on its own: free-form texts over a letter, a blank *)
(* and the terminator, and regular texts "S1. S2. ... Sn. ".                *)

SentenceTokens == <<"S1", "S2", "S3", "S4", "S5", "S6", "S7", "S8">>

RegularText(n) == Flatten([k \in 1..n |-> <<SentenceTokens[k], ".", " ">>])

FreeTexts == UNION {[1..k -> {"a", " ", "."}] : k \in 0..MaxFreeLen}

RefineTexts == FreeTexts \cup {RegularText(n) : n \in 1..MaxSentences}

InitRefine ==
    /\ listing = <<>>
    /\ pc = "refine"
    /\ chunks = <<>>
    /\ query_embedding = TRUE
    /\ chunk_embeddings = <<>>
    /\ sections = <<>>
    /\ sorted_sections = <<>>
    /\ output = NoOutput
    /\ rank = 0
    /\ calls = <<>>
    /\ written = <<>>
    /\ \E t \in RefineTexts : refine = [NoRefine EXCEPT !.state = "called", !.full_text = t]

\* generate_refined_text(full_text, query_embedding, model), lines 59-77
generate_refined_text ==
    LET sentences == SplitSentences(refine.full_text)
    IN  /\ pc = "refine"
        /\ \/ /\ NoSentences(sentences)
              /\ refine' = [refine EXCEPT !.state = "returned"]
              /\ calls' = calls
           \/ /\ ~NoSentences(sentences)
              /\ \E st \in TopIndicesOf(Len(sentences)) :
                    refine' = [state        |-> "returned",
                               full_text    |-> refine.full_text,
                               sentences    |-> sentences,
                               similarities |-> st[1],
                               top_indices  |-> st[2],
                               refined_text |-> RefinedText(sentences, st[2])]
              /\ calls' = Append(calls, Call("sentences", Len(sentences), 0, TRUE))
           \/ /\ ~NoSentences(sentences)
              /\ refine' = [refine EXCEPT !.state = "raised", !.sentences = sentences]
              /\ calls' = Append(calls, Call("sentences", Len(sentences), 0, FALSE))
        /\ pc' = "refined"
        /\ UNCHANGED <<listing, chunks, query_embedding, chunk_embeddings, sections,
                       sorted_sections, output, rank, written>>

SpecRefine == InitRefine /\ [][generate_refined_text]_vars

-----------------------------------------------------------------------------
(* Properties *)

\* the chunks that carry a section key, and when the key was first seen
ChunksOf(key) == {j \in DOMAIN chunks : Key(chunks[j]) = key}
FirstSeen(key) == MinOf(ChunksOf(key))
SectionKeys == {Key(chunks[j]) : j \in DOMAIN chunks}

\* the stored max_score of the section an output entry names
EntryKey(e) == <<e.document, e.page_number>>
MaxScoreOf(key) ==
    sections[CHOOSE k \in DOMAIN sections : sections[k].key = key].max_score

Ranked == sections # <<>>

\* C1: after the grouping loop, every section's max_score is the maximum of
\* the scores of the chunks that carry its key, whatever the scores are
\* (sections whose chunks all score below zero included).
C1_MaxScoreIsMaximum ==
    Ranked =>
        \A k \in DOMAIN sections :
            sections[k].max_score =
                MaxOf({chunks[j].score : j \in ChunksOf(sections[k].key)})

\* C2: in the ranked list, importance_rank is 1, 2, ..., K in list order,
\* max_score never increases along the list, no section left out has a
\* max_score above a listed one, and of two sections with equal max_score the
\* one whose key was seen first ranks first.
C2_RankedList ==
    LET es == output.ExtractedSection
        listed == {EntryKey(es[i]) : i \in DOMAIN es}
    IN  Ranked =>
          /\ \A i \in DOMAIN es : es[i].importance_rank = i
          /\ \A i, j \in DOMAIN es :
                i < j =>
                  /\ MaxScoreOf(EntryKey(es[i])) >= MaxScoreOf(EntryKey(es[j]))
                  /\ MaxScoreOf(EntryKey(es[i])) = MaxScoreOf(EntryKey(es[j]))
                        => FirstSeen(EntryKey(es[i])) < FirstSeen(EntryKey(es[j]))
          /\ \A key \in SectionKeys \ listed :
                \A i \in DOMAIN es :
                  /\ MaxScoreOf(key) <= MaxScoreOf(EntryKey(es[i]))
                  /\ MaxScoreOf(key) = MaxScoreOf(EntryKey(es[i]))
                        => FirstSeen(EntryKey(es[i])) < FirstSeen(key)

\* a finished run with more sections than the list takes, a tie inside the
\* list, a strict drop inside the list and a section left out that ties with
\* a listed one
C2_Witness ==
    LET es == output.ExtractedSection
        listed == {EntryKey(es[i]) : i \in DOMAIN es}
    IN  /\ pc = "done"
        /\ Len(es) = TOP_SECTIONS
        /\ \E i, j \in DOMAIN es :
              i < j /\ MaxScoreOf(EntryKey(es[i])) = MaxScoreOf(EntryKey(es[j]))
        /\ \E i, j \in DOMAIN es :
              /\ i < j
              /\ MaxScoreOf(EntryKey(es[i])) > MaxScoreOf(EntryKey(es[j]))
              /\ FirstSeen(EntryKey(es[i])) > FirstSeen(EntryKey(es[j]))
        /\ \E key \in SectionKeys \ listed :
              MaxScoreOf(key) = MaxScoreOf(EntryKey(es[TOP_SECTIONS]))

\* C3: for n >= 1 sentences and any similarities, generate_refined_text
\* selects exactly min(TOP_SENTENCES_FOR_REFINED_TEXT, n) distinct sentences,
\* none of the others has a strictly higher similarity than a selected one,
\* and the result holds the selected sentences in strictly increasing
\* original position.
C3_TopSentencesInOrder ==
    LET n == Len(refine.sentences)
        top == refine.top_indices
        selected == {top[k] : k \in DOMAIN top}
    IN  (refine.state = "returned" /\ n >= 1) =>
          /\ Len(top) = Min2(TOP_SENTENCES_FOR_REFINED_TEXT, n)
          /\ selected \subseteq 1..n
          /\ \A k \in 1..(Len(top) - 1) : top[k] < top[k + 1]
          /\ \A u \in (1..n) \ selected : \A v \in selected :
                refine.similarities[u] <= refine.similarities[v]
          /\ refine.refined_text =
                Join([k \in DOMAIN top |-> refine.sentences[top[k]]], <<" ">>) \o <<".">>

\* four sentences, the first one the most similar and the last one the least
\* of the three selected
C3_Witness ==
    /\ refine.state = "returned"
    /\ Len(refine.sentences) = 4
    /\ refine.top_indices = <<1, 3, 4>>
    /\ refine.similarities[1] > refine.similarities[3]
    /\ refine.similarities[4] > refine.similarities[3]
    /\ refine.similarities[3] > refine.similarities[2]

\* the case of C4: sentences [S1, S2, S3, S4], similarity S3 > S1 > S4 > S2
C4_Case ==
    /\ refine.state = "returned"
    /\ refine.full_text = RegularText(4)
    /\ refine.similarities[3] > refine.similarities[1]
    /\ refine.similarities[1] > refine.similarities[4]
    /\ refine.similarities[4] > refine.similarities[2]

\* C4 (as claimed): for sentences [S1, S2, S3, S4] with similarity order
\* S3 > S1 > S4 > S2 the refined text reads "S1. S3. S4.", every selected
\* sentence followed by the terminator.
C4_EachSentenceTerminated ==
    C4_Case =>
        refine.refined_text = <<"S1", ".", " ", "S3", ".", " ", "S4", ".">>

\* C4 (amended): for sentences [S1, S2, S3, S4] with similarity order
\* S3 > S1 > S4 > S2 the refined text reads "S1 S3 S4.": the selected
\* sentences in original position order, one space between them, and a single
\* terminator at the end.
C4_PositionOrderOneTerminator ==
    C4_Case =>
        /\ refine.sentences = <<<<"S1">>, <<"S2">>, <<"S3">>, <<"S4">>>>
        /\ refine.refined_text = <<"S1", " ", "S3", " ", "S4", ".">>

C4_Witness == C4_Case /\ refine.top_indices = <<1, 3, 4>>

\* parse_and_chunk_documents has returned
Parsed == pc # "parse" /\ \E k \in DOMAIN calls : calls[k].kind = "load" /\ calls[k].ok

\* C5: a page whose trimmed text is not empty gives consecutive,
\* non-overlapping chunks in ascending offset, each non-empty and at most
\* CHUNK_SIZE long (all but the last exactly CHUNK_SIZE), whose concatenation
\* is the page's raw text; a page whose trimmed text is empty gives no chunk.
C5_ChunksTileThePage ==
    Parsed =>
        \A f \in DOMAIN listing : \A p \in DOMAIN listing[f].pages :
            LET text == listing[f].pages[p]
                Mine(c) == Key(c) = <<listing[f].name, p>>
                mine == SelectSeq(chunks, Mine)
            IN  IF \A k \in DOMAIN text : text[k] \in Whitespace
                THEN mine = <<>>
                ELSE /\ mine # <<>>
                     /\ Flatten([k \in DOMAIN mine |-> mine[k].text]) = text
                     /\ \A k \in DOMAIN mine :
                          /\ Len(mine[k].text) >= 1
                          /\ Len(mine[k].text) <= CHUNK_SIZE
                          /\ k < Len(mine) => Len(mine[k].text) = CHUNK_SIZE
                          /\ mine[k].text =
                                SubSeq(text, (k - 1) * CHUNK_SIZE + 1,
                                       Min2(k * CHUNK_SIZE, Len(text)))

\* a page of three chunks, the last one shorter, that starts with a blank,
\* followed by a second page
C5_Witness ==
    /\ pc = "encode_query"
    /\ Len(listing[1].pages) = 2
    /\ Len(listing[1].pages[1]) > 2 * CHUNK_SIZE
    /\ listing[1].pages[1][1] = " "
    /\ Len(chunks) = 4
    /\ Len(chunks[3].text) < CHUNK_SIZE
    /\ chunks[4].page_num = 2

\* C6: a written output has exactly min(TOP_SECTIONS, number of sections)
\* entries in each array, the i-th entries of the two arrays name the same
\* (document, page_number), the i-th "Extracted Section" entry has
\* importance_rank i, and no (document, page_number) appears twice.
C6_OutputCardinality ==
    \A w \in DOMAIN written :
        LET es == written[w].ExtractedSection
            ss == written[w].SubSection
            n  == Min2(TOP_SECTIONS, Cardinality(SectionKeys))
        IN  /\ Len(es) = n
            /\ Len(ss) = n
            /\ \A i \in 1..n :
                  /\ EntryKey(es[i]) = EntryKey(ss[i])
                  /\ es[i].importance_rank = i
            /\ \A i, j \in 1..n :
                  i # j => EntryKey(es[i]) # EntryKey(es[j])
                           /\ EntryKey(ss[i]) # EntryKey(ss[j])

\* an output written for more sections than TOP_SECTIONS
C6_Witness ==
    /\ written # <<>>
    /\ Cardinality(SectionKeys) > TOP_SECTIONS
    /\ Len(written[1].SubSection) = TOP_SECTIONS

\* no PDF file, or nothing but blank pages in every PDF file
NoExtractableText ==
    \A f \in DOMAIN listing :
        IsPdf(listing[f].name) =>
            \A p \in DOMAIN listing[f].pages :
                \A k \in DOMAIN listing[f].pages[p] :
                    listing[f].pages[p][k] \in Whitespace

EncodeCalls == {k \in DOMAIN calls : calls[k].kind # "load"}

\* C7: when the documents yield no chunk, main() ends without writing the
\* output and without giving the provider any text to encode; the output is
\* written only in runs that produced a chunk.
C7_NoTextNoOutput ==
    /\ NoExtractableText =>
          /\ written = <<>>
          /\ EncodeCalls = {}
          /\ pc \in {"load_model", "parse", "no_text", "failed"}
    /\ written # <<>> => (chunks # <<>> /\ ~NoExtractableText)

\* main() has returned early on a PDF of several pages, all blank
C7_Witness ==
    /\ pc = "no_text"
    /\ \E f \in DOMAIN listing :
          IsPdf(listing[f].name) /\ Len(listing[f].pages) >= 2

\* C8: a failure of the provider at any of its calls ends the run without an
\* output; the output is written at most once, and only after the query
\* embedding, the chunk embeddings and the summaries of all the selected
\* sections have been computed.
C8_NoOutputAfterFailure ==
    /\ Len(written) <= 1
    /\ (\E k \in DOMAIN calls : ~calls[k].ok) => (written = <<>> /\ pc = "failed")
    /\ pc = "failed" => written = <<>>
    /\ written # <<>> =>
          /\ query_embedding
          /\ chunks # <<>>
          /\ Len(chunk_embeddings) = Len(chunks)
          /\ Len(written[1].SubSection) = Len(TopSections(sorted_sections))
          /\ \E k \in DOMAIN calls : calls[k].kind = "query"
          /\ \E k \in DOMAIN calls : calls[k].kind = "chunks"

\* the provider has failed on the sentences of the third section, after two
\* summaries were computed
C8_Witness ==
    /\ pc = "failed"
    /\ calls # <<>>
    /\ calls[Len(calls)].kind = "sentences"
    /\ calls[Len(calls)].rank = 3
    /\ Len(output.SubSection) = 2
    /\ written = <<>>

\* the model.encode calls, in order
IsEncode(c) == c.kind # "load"
Encodes == SelectSeq(calls, IsEncode)

\* C10: in a run that reaches the output stage the provider encodes the query
\* once, then the whole batch of chunk texts once, then the sentences of the
\* output sections in ascending importance_rank: once for a section with a
\* sentence, never for a section without one (its refined_text is empty);
\* at most TOP_SECTIONS such calls, none for a section outside the top.
C10_EncodeCallOrder ==
    LET top == TopSections(sorted_sections)
        handled == Len(output.SubSection)
    IN  (pc \in {"emit", "save", "done"}) =>
          /\ Len(top) <= TOP_SECTIONS
          /\ Len(Encodes) >= 2
          /\ Encodes[1] = Call("query", 1, 0, TRUE)
          /\ Encodes[2] = Call("chunks", Len(chunks), 0, TRUE)
          /\ Len(Encodes) - 2 <= TOP_SECTIONS
          /\ \A k \in 3..Len(Encodes) :
                /\ Encodes[k].kind = "sentences"
                /\ Encodes[k].rank \in 1..handled
                /\ Encodes[k].n = Len(SplitSentences(top[Encodes[k].rank].text))
                /\ k > 3 => Encodes[k - 1].rank < Encodes[k].rank
          /\ \A r \in 1..handled :
                LET mine == {k \in 3..Len(Encodes) : Encodes[k].rank = r}
                IN  IF SplitSentences(top[r].text) = <<>>
                    THEN mine = {} /\ output.SubSection[r].refined_text = <<>>
                    ELSE Cardinality(mine) = 1
          /\ pc \in {"save", "done"} => handled = Len(top)
          /\ output.ExtractedSection =
                [r \in 1..handled |-> ExtractedEntry(top[r].key, r)]

\* a finished run over more sections than TOP_SECTIONS whose output holds a
\* section without a sentence between two sections with sentences
C10_Witness ==
    /\ pc = "done"
    /\ Len(sorted_sections) > TOP_SECTIONS
    /\ Len(Encodes) = 2 + TOP_SECTIONS - 1
    /\ output.SubSection[1].refined_text # <<>>
    /\ output.SubSection[2].refined_text = <<>>
    /\ output.SubSection[3].refined_text # <<>>

=============================================================================
